---- MODULE Spec2Model ----
(***************************************************************************)
(* A model of the CAF container codec of caf.go: File.Decode walks a byte  *)
(* stream chunk by chunk, File.Encode and Chunk.Encode write the decoded   *)
(* model back.  Bytes are the numbers 0..255, a stream is a sequence of    *)
(* bytes and a reader is a stream with the count of bytes consumed.        *)
(*                                                                         *)
(* Fixed-width integers are TLA+ integers; the streams of the model keep   *)
(* every integer field below 2^31 in magnitude.  The writers are buffers   *)
(* that take every byte, so no Write fails.  A uint64 of the varint        *)
(* codec is a tuple of ten base-128 limbs, least significant first (the    *)
(* tenth limb is bit 63), so that all 64 bits are there.  A float is its   *)
(* IEEE-754 bit pattern, held as big-endian 16-bit words.                  *)
(***************************************************************************)
EXTENDS Integers, Sequences, FiniteSets, TLC

VARIABLES
    input,   \* the bytes of the stream handed to File.Decode
    gen,     \* how the stream was put together (head, chunk templates, cut)
    pos,     \* bytes of the stream consumed by the reader
    pc,      \* "start", "chunks" (in the loop of File.Decode), "decoded", "idle"
    cf,      \* the File: [FileHeader, Chunks]
    err,     \* what File.Decode returned: "nil", an error, or "panic"
    offs,    \* the stream offset at which each chunk of cf.Chunks began
    last,    \* the stream offset at which the latest Chunk.decode began
    calls,   \* the Encode calls made on the decoded File, with their results
    v,       \* varint codec: the uint64 handed to encodeInt
    vbuf,    \* varint codec: the bytes encodeInt wrote
    vres,    \* varint codec: what decodeInt returned on vbuf
    vpc      \* varint codec: "new", "encoded", "decoded", "idle"

vars == <<input, gen, pos, pc, cf, err, offs, last, calls, v, vbuf, vres, vpc>>

fileVars == <<input, gen, pos, pc, cf, err, offs, last, calls>>

varintVars == <<v, vbuf, vres, vpc>>

-----------------------------------------------------------------------------
(* Bounds of the model *)

\* chunks in a stream
MaxChunks == 2

\* Encode calls made on one decoded File
MaxCalls == 2

-----------------------------------------------------------------------------
(* Tags *)

TagCaff == <<99, 97, 102, 102>>

ChunkTypeAudioDescription == <<100, 101, 115, 99>>

ChunkTypeChannelLayout == <<99, 104, 97, 110>>

ChunkTypeInformation == <<105, 110, 102, 111>>

ChunkTypeAudioData == <<100, 97, 116, 97>>

ChunkTypePacketTable == <<112, 97, 107, 116>>

ChunkTypeMidi == <<109, 105, 100, 105>>

-----------------------------------------------------------------------------
(* Readers: io.ReadFull under binary.Read, and the big-endian conversions *)

Min(a, b) == IF a < b THEN a ELSE b

\* io.ReadFull that reports an exhausted stream as a short read
ReadFullNoEOF(s, p, n) ==
    IF n = 0 THEN [err |-> "nil", bytes |-> << >>, pos |-> p]
    ELSE IF Len(s) - p < n
         THEN [err |-> "ErrUnexpectedEOF", bytes |-> << >>, pos |-> Len(s)]
    ELSE [err |-> "nil", bytes |-> SubSeq(s, p + 1, p + n), pos |-> p + n]

\* io.ReadFull of n bytes at offset p: io.EOF when no byte is left,
\* io.ErrUnexpectedEOF when some but fewer than n are; n = 0 reads nothing.
ReadFull(s, p, n) ==
    IF n = 0 THEN [err |-> "nil", bytes |-> << >>, pos |-> p]
    ELSE IF Len(s) - p = 0 THEN [err |-> "EOF", bytes |-> << >>, pos |-> p]
    ELSE IF Len(s) - p < n
         THEN [err |-> "ErrUnexpectedEOF", bytes |-> << >>, pos |-> Len(s)]
    ELSE [err |-> "nil", bytes |-> SubSeq(s, p + 1, p + n), pos |-> p + n]

RECURSIVE BigEndianUint(_)
\* binary.BigEndian.Uint16/32/64: the most significant byte first
BigEndianUint(bs) ==
    IF bs = << >> THEN 0
    ELSE BigEndianUint(SubSeq(bs, 1, Len(bs) - 1)) * 256 + bs[Len(bs)]

\* a signed field: two's complement of the big-endian bytes
BigEndianInt(bs) ==
    IF bs[1] < 128 THEN BigEndianUint(bs)
    ELSE -(BigEndianUint([i \in 1..Len(bs) |-> 255 - bs[i]])) - 1

RECURSIVE PutUint(_, _)
\* binary.BigEndian.PutUint16/32/64: x in n bytes
PutUint(x, n) ==
    IF n = 0 THEN << >>
    ELSE Append(PutUint(x \div 256, n - 1), x % 256)

\* a signed field written in n bytes
PutInt(x, n) ==
    IF x >= 0 THEN PutUint(x, n)
    ELSE LET c == PutUint(-x - 1, n) IN [i \in 1..n |-> 255 - c[i]]

\* math.Float32frombits / Float64frombits: the bit pattern, in 16-bit words
FloatBits(bs) ==
    [i \in 1..(Len(bs) \div 2) |-> BigEndianUint(SubSeq(bs, 2 * i - 1, 2 * i))]

RECURSIVE PutFloatBits(_)
\* math.Float32bits / Float64bits, written big-endian
PutFloatBits(ws) ==
    IF ws = << >> THEN << >>
    ELSE PutUint(ws[1], 2) \o PutFloatBits(Tail(ws))

-----------------------------------------------------------------------------
(* The varint codec on uint64 *)

Zero64 == [i \in 1..10 |-> 0]

\* cur >> 7
Shr7(x) == [i \in 1..10 |-> IF i < 10 THEN x[i + 1] ELSE 0]

\* (res << 7) | uint64(b), for b < 128: bits pushed past bit 63 are lost
Shl7Or(x, b) ==
    [i \in 1..10 |-> IF i = 1 THEN b ELSE IF i = 10 THEN x[9] % 2 ELSE x[i - 1]]

RECURSIVE Groups(_)
\* the first loop of encodeInt: the 7-bit groups of i, least significant first
Groups(cur) ==
    IF Shr7(cur) = Zero64 THEN <<cur[1]>>
    ELSE <<cur[1]>> \o Groups(Shr7(cur))

\* encodeInt with the groups written in the order the first loop found them
encodeIntLeastFirst(i) ==
    LET byts == Groups(i)
        n == Len(byts)
    IN  [k \in 1..n |-> IF k < n THEN byts[k] + 128 ELSE byts[k]]

\* encodeInt: the groups most significant first, the high bit set on all but
\* the last byte written
encodeInt(i) ==
    LET byts == Groups(i)
        n == Len(byts)
    IN  [k \in 1..n |-> IF k < n THEN byts[n + 1 - k] + 128 ELSE byts[n + 1 - k]]

\* the byte cap of decodeInt
VarintCap == 8

RECURSIVE decodeIntLoop(_, _, _, _)
decodeIntLoop(s, p, res, bytesRead) ==
    IF p >= Len(s) THEN [err |-> "EOF", val |-> Zero64, pos |-> p]
    ELSE LET byt == s[p + 1]
             r2 == Shl7Or(res, byt % 128)
         IN  IF byt < 128 \/ bytesRead + 1 >= VarintCap
             THEN [err |-> "nil", val |-> r2, pos |-> p + 1]
             ELSE decodeIntLoop(s, p + 1, r2, bytesRead + 1)

RECURSIVE decodeIntSevenLoop(_, _, _, _)
decodeIntSevenLoop(s, p, res, bytesRead) ==
    IF p >= Len(s) THEN [err |-> "EOF", val |-> Zero64, pos |-> p]
    ELSE LET byt == s[p + 1]
             r2 == Shl7Or(res, byt % 128)
         IN  IF byt < 128 \/ bytesRead + 1 >= VarintCap - 1
             THEN [err |-> "nil", val |-> r2, pos |-> p + 1]
             ELSE decodeIntSevenLoop(s, p + 1, r2, bytesRead + 1)

\* decodeInt stopping one byte early
decodeIntSeven(s, p) == decodeIntSevenLoop(s, p, Zero64, 0)

\* decodeInt on the reader (s, p)
decodeInt(s, p) == decodeIntLoop(s, p, Zero64, 0)

-----------------------------------------------------------------------------
(* Results of a decode step: an error (or "nil"), a value, the reader after *)

NoValue == [kind |-> "none"]

Fail(e, p) == [err |-> e, val |-> NoValue, pos |-> p]

Ok(x, p) == [err |-> "nil", val |-> x, pos |-> p]

-----------------------------------------------------------------------------
(* Payload decoders *)

\* AudioFormat.decode: one binary.Read of the 32-byte struct
AudioFormatDecode(s, p) ==
    LET r == ReadFull(s, p, 32)
        b == r.bytes
    IN  IF r.err # "nil" THEN Fail(r.err, r.pos)
        ELSE Ok([kind |-> "AudioFormat",
                 SampleRate |-> FloatBits(SubSeq(b, 1, 8)),
                 FormatID |-> SubSeq(b, 9, 12),
                 FormatFlags |-> BigEndianUint(SubSeq(b, 13, 16)),
                 BytesPerPacket |-> BigEndianUint(SubSeq(b, 17, 20)),
                 FramesPerPacket |-> BigEndianUint(SubSeq(b, 21, 24)),
                 ChannelsPerPacket |-> BigEndianUint(SubSeq(b, 25, 28)),
                 BitsPerChannel |-> BigEndianUint(SubSeq(b, 29, 32))], r.pos)

RECURSIVE ReadChannels(_, _, _, _)
\* the loop of ChannelLayout.decode: n more 20-byte ChannelDescriptions
ReadChannels(s, p, n, acc) ==
    IF n = 0 THEN Ok(acc, p)
    ELSE LET r == ReadFull(s, p, 20)
             b == r.bytes
         IN  IF r.err # "nil" THEN Fail(r.err, r.pos)
             ELSE ReadChannels(s, r.pos, n - 1,
                      Append(acc, [ChannelLabel |-> BigEndianUint(SubSeq(b, 1, 4)),
                                   ChannelFlags |-> BigEndianUint(SubSeq(b, 5, 8)),
                                   Coordinates |-> <<FloatBits(SubSeq(b, 9, 12)),
                                                     FloatBits(SubSeq(b, 13, 16)),
                                                     FloatBits(SubSeq(b, 17, 20))>>]))

\* ChannelLayout.decode
ChannelLayoutDecode(s, p) ==
    LET r1 == ReadFull(s, p, 4)
    IN  IF r1.err # "nil" THEN Fail(r1.err, r1.pos)
        ELSE LET r2 == ReadFull(s, r1.pos, 4)
             IN  IF r2.err # "nil" THEN Fail(r2.err, r2.pos)
                 ELSE LET r3 == ReadFull(s, r2.pos, 4)
                      IN  IF r3.err # "nil" THEN Fail(r3.err, r3.pos)
                          ELSE LET n == BigEndianUint(r3.bytes)
                                   ch == ReadChannels(s, r3.pos, n, << >>)
                               IN  IF ch.err # "nil" THEN Fail(ch.err, ch.pos)
                                   ELSE Ok([kind |-> "ChannelLayout",
                                            ChannelLayoutTag |-> BigEndianUint(r1.bytes),
                                            ChannelBitmap |-> BigEndianUint(r2.bytes),
                                            NumberChannelDescriptions |-> n,
                                            Channels |-> ch.val], ch.pos)

RECURSIVE readStringLoop(_, _, _)
readStringLoop(s, p, bs) ==
    IF p >= Len(s) THEN Fail("EOF", p)
    ELSE IF s[p + 1] = 0 THEN Ok(Append(bs, s[p + 1]), p + 1)
    ELSE readStringLoop(s, p + 1, Append(bs, s[p + 1]))

\* readString that drops the zero byte it stopped at
readStringStripped(s, p) ==
    LET r == readStringLoop(s, p, << >>)
    IN  IF r.err # "nil" THEN r
        ELSE [err |-> "nil", val |-> SubSeq(r.val, 1, Len(r.val) - 1),
              pos |-> r.pos]

\* readString: the bytes appended to bs, the zero byte among them
readString(s, p) == readStringLoop(s, p, << >>)

\* Information.decode: the key, then the value
InformationDecode(s, p) ==
    LET k == readString(s, p)
    IN  IF k.err # "nil" THEN Fail(k.err, k.pos)
        ELSE LET w == readString(s, k.pos)
             IN  IF w.err # "nil" THEN Fail(w.err, w.pos)
                 ELSE Ok([Key |-> k.val, Value |-> w.val], w.pos)

RECURSIVE ReadStrings(_, _, _, _)
\* the loop of CAFStringsChunk.decode
ReadStrings(s, p, n, acc) ==
    IF n = 0 THEN Ok(acc, p)
    ELSE LET r == InformationDecode(s, p)
         IN  IF r.err # "nil" THEN Fail(r.err, r.pos)
             ELSE ReadStrings(s, r.pos, n - 1, Append(acc, r.val))

\* CAFStringsChunk.decode
CAFStringsChunkDecode(s, p) ==
    LET r == ReadFull(s, p, 4)
    IN  IF r.err # "nil" THEN Fail(r.err, r.pos)
        ELSE LET n == BigEndianUint(r.bytes)
                 st == ReadStrings(s, r.pos, n, << >>)
             IN  IF st.err # "nil" THEN Fail(st.err, st.pos)
                 ELSE Ok([kind |-> "CAFStringsChunk", NumEntries |-> n,
                          Strings |-> st.val], st.pos)

\* ioutil.ReadAll(io.LimitReader(r, n)): at most n bytes, fewer when the
\* stream ends first, none when n <= 0; never an error
ReadAllLimit(s, p, n) ==
    LET k == IF n <= 0 THEN 0 ELSE Min(n, Len(s) - p)
    IN  Ok(SubSeq(s, p + 1, p + k), p + k)

\* Data.decode
DataDecode(s, p, h) ==
    LET r == ReadFull(s, p, 4)
    IN  IF r.err # "nil" THEN Fail(r.err, r.pos)
        ELSE LET d == IF h.ChunkSize = -1
                      THEN Ok(SubSeq(s, r.pos + 1, Len(s)), Len(s))
                      ELSE ReadAllLimit(s, r.pos, h.ChunkSize - 4)
             IN  Ok([kind |-> "Data", EditCount |-> BigEndianUint(r.bytes),
                     Data |-> d.val], d.pos)

RECURSIVE ReadEntries(_, _, _, _)
\* the loop of PacketTable.decode; it does not run for a count <= 0
ReadEntries(s, p, n, acc) ==
    IF n <= 0 THEN Ok(acc, p)
    ELSE LET r == decodeInt(s, p)
         IN  IF r.err # "nil" THEN Fail(r.err, r.pos)
             ELSE ReadEntries(s, r.pos, n - 1, Append(acc, r.val))

\* PacketTable.decode
PacketTableDecode(s, p) ==
    LET r == ReadFull(s, p, 24)
        b == r.bytes
    IN  IF r.err # "nil" THEN Fail(r.err, r.pos)
        ELSE LET hd == [NumberPackets |-> BigEndianInt(SubSeq(b, 1, 8)),
                        NumberValidFrames |-> BigEndianInt(SubSeq(b, 9, 16)),
                        PrimingFramess |-> BigEndianInt(SubSeq(b, 17, 20)),
                        RemainderFrames |-> BigEndianInt(SubSeq(b, 21, 24))]
                 en == ReadEntries(s, r.pos, hd.NumberPackets, << >>)
             IN  IF en.err # "nil" THEN Fail(en.err, en.pos)
                 ELSE Ok([kind |-> "PacketTable", Header |-> hd, Entry |-> en.val],
                         en.pos)

\* make([]byte, ChunkSize) and binary.Read into it: make panics on a negative
\* length
BlobDecode(s, p, h) ==
    IF h.ChunkSize < 0 THEN Fail("panic", p)
    ELSE LET r == ReadFull(s, p, h.ChunkSize)
         IN  IF r.err # "nil" THEN Fail(r.err, r.pos) ELSE Ok(r.bytes, r.pos)

\* the midi case of Chunk.decode
MidiDecode(s, p, h) ==
    LET r == BlobDecode(s, p, h)
    IN  IF r.err # "nil" THEN r ELSE Ok([kind |-> "Midi", Data |-> r.val], r.pos)

\* the default case of Chunk.decode
UnknownDecode(s, p, h) ==
    LET r == BlobDecode(s, p, h)
    IN  IF r.err # "nil" THEN r
        ELSE Ok([kind |-> "UnknownContents", Data |-> r.val], r.pos)

\* the switch of Chunk.decode
ContentsDecode(s, p, h) ==
    CASE h.ChunkType = ChunkTypeAudioDescription -> AudioFormatDecode(s, p)
      [] h.ChunkType = ChunkTypeChannelLayout -> ChannelLayoutDecode(s, p)
      [] h.ChunkType = ChunkTypeInformation -> CAFStringsChunkDecode(s, p)
      [] h.ChunkType = ChunkTypeAudioData -> DataDecode(s, p, h)
      [] h.ChunkType = ChunkTypePacketTable -> PacketTableDecode(s, p)
      [] h.ChunkType = ChunkTypeMidi -> MidiDecode(s, p, h)
      [] OTHER -> UnknownDecode(s, p, h)

\* binary.Read of the 12-byte ChunkHeader
ChunkHeaderDecode(s, p) ==
    LET r == ReadFull(s, p, 12)
    IN  IF r.err # "nil" THEN Fail(r.err, r.pos)
        ELSE Ok([ChunkType |-> SubSeq(r.bytes, 1, 4),
                 ChunkSize |-> BigEndianInt(SubSeq(r.bytes, 5, 12))], r.pos)

\* Chunk.decode
ChunkDecode(s, p) ==
    LET h == ChunkHeaderDecode(s, p)
    IN  IF h.err # "nil" THEN Fail(h.err, h.pos)
        ELSE LET c == ContentsDecode(s, h.pos, h.val)
             IN  IF c.err # "nil" THEN Fail(c.err, c.pos)
                 ELSE Ok([Header |-> h.val, Contents |-> c.val], c.pos)

\* FileHeader.Decode without the check of the tag
FileHeaderDecodeAnyTag(s, p) ==
    LET r == ReadFull(s, p, 8)
    IN  IF r.err # "nil" THEN Fail(r.err, r.pos)
        ELSE Ok([FileType |-> SubSeq(r.bytes, 1, 4),
                 FileVersion |-> BigEndianInt(SubSeq(r.bytes, 5, 6)),
                 FileFlags |-> BigEndianInt(SubSeq(r.bytes, 7, 8))], r.pos)

\* FileHeader.Decode: the 8 bytes first, the tag check after
FileHeaderDecode(s, p) ==
    LET r == ReadFull(s, p, 8)
    IN  IF r.err # "nil" THEN Fail(r.err, r.pos)
        ELSE IF SubSeq(r.bytes, 1, 4) # TagCaff
             THEN Fail("invalid caff header", r.pos)
        ELSE Ok([FileType |-> SubSeq(r.bytes, 1, 4),
                 FileVersion |-> BigEndianInt(SubSeq(r.bytes, 5, 6)),
                 FileFlags |-> BigEndianInt(SubSeq(r.bytes, 7, 8))], r.pos)

-----------------------------------------------------------------------------
(* Encoders.  A result is [err, out]: what was written before the return   *)
(* or the panic.                                                           *)

RECURSIVE EncodeChannels(_, _, _)
\* the loop of ChannelLayout.encode: c.Channels[i] panics past the end
EncodeChannels(ch, i, n) ==
    IF i > n THEN [err |-> "nil", out |-> << >>]
    ELSE IF i > Len(ch) THEN [err |-> "panic", out |-> << >>]
    ELSE LET d == ch[i]
             rest == EncodeChannels(ch, i + 1, n)
         IN  [err |-> rest.err,
              out |-> PutUint(d.ChannelLabel, 4) \o PutUint(d.ChannelFlags, 4)
                      \o PutFloatBits(d.Coordinates[1])
                      \o PutFloatBits(d.Coordinates[2])
                      \o PutFloatBits(d.Coordinates[3]) \o rest.out]

\* AudioFormat.encode
AudioFormatEncode(c) ==
    [err |-> "nil",
     out |-> PutFloatBits(c.SampleRate) \o c.FormatID
             \o PutUint(c.FormatFlags, 4) \o PutUint(c.BytesPerPacket, 4)
             \o PutUint(c.FramesPerPacket, 4) \o PutUint(c.ChannelsPerPacket, 4)
             \o PutUint(c.BitsPerChannel, 4)]

\* ChannelLayout.encode
ChannelLayoutEncode(c) ==
    LET r == EncodeChannels(c.Channels, 1, c.NumberChannelDescriptions)
    IN  [err |-> r.err,
         out |-> PutUint(c.ChannelLayoutTag, 4) \o PutUint(c.ChannelBitmap, 4)
                 \o PutUint(c.NumberChannelDescriptions, 4) \o r.out]

\* writeString: the bytes of the string as they are
writeString(str) == str

\* Information.encode
InformationEncode(c) == writeString(c.Key) \o writeString(c.Value)

RECURSIVE EncodeStrings(_, _, _)
\* the loop of CAFStringsChunk.encode
EncodeStrings(st, i, n) ==
    IF i > n THEN [err |-> "nil", out |-> << >>]
    ELSE IF i > Len(st) THEN [err |-> "panic", out |-> << >>]
    ELSE LET rest == EncodeStrings(st, i + 1, n)
         IN  [err |-> rest.err, out |-> InformationEncode(st[i]) \o rest.out]

\* CAFStringsChunk.encode
CAFStringsChunkEncode(c) ==
    LET r == EncodeStrings(c.Strings, 1, c.NumEntries)
    IN  [err |-> r.err, out |-> PutUint(c.NumEntries, 4) \o r.out]

\* Data.encode
DataEncode(c) == [err |-> "nil", out |-> PutUint(c.EditCount, 4) \o c.Data]

RECURSIVE EncodeEntries(_, _, _)
\* the loop of PacketTable.encode
EncodeEntries(en, i, n) ==
    IF i > n THEN [err |-> "nil", out |-> << >>]
    ELSE IF i > Len(en) THEN [err |-> "panic", out |-> << >>]
    ELSE LET rest == EncodeEntries(en, i + 1, n)
         IN  [err |-> rest.err, out |-> encodeInt(en[i]) \o rest.out]

\* PacketTable.encode
PacketTableEncode(c) ==
    LET r == EncodeEntries(c.Entry, 1, c.Header.NumberPackets)
    IN  [err |-> r.err,
         out |-> PutInt(c.Header.NumberPackets, 8)
                 \o PutInt(c.Header.NumberValidFrames, 8)
                 \o PutInt(c.Header.PrimingFramess, 4)
                 \o PutInt(c.Header.RemainderFrames, 4) \o r.out]

\* binary.Write of the ChunkHeader
ChunkHeaderEncode(h) == h.ChunkType \o PutInt(h.ChunkSize, 8)

\* the Go type c.Contents must hold for the case of the switch taken
WantedKind(h) ==
    CASE h.ChunkType = ChunkTypeAudioDescription -> "AudioFormat"
      [] h.ChunkType = ChunkTypeChannelLayout -> "ChannelLayout"
      [] h.ChunkType = ChunkTypeInformation -> "CAFStringsChunk"
      [] h.ChunkType = ChunkTypeAudioData -> "Data"
      [] h.ChunkType = ChunkTypePacketTable -> "PacketTable"
      [] h.ChunkType = ChunkTypeMidi -> "Midi"
      [] OTHER -> "UnknownContents"

\* the payload encoders with the default case writing nothing
ContentsEncodeDropsUnknown(c) ==
    CASE c.kind = "AudioFormat" -> AudioFormatEncode(c)
      [] c.kind = "ChannelLayout" -> ChannelLayoutEncode(c)
      [] c.kind = "CAFStringsChunk" -> CAFStringsChunkEncode(c)
      [] c.kind = "Data" -> DataEncode(c)
      [] c.kind = "PacketTable" -> PacketTableEncode(c)
      [] c.kind = "Midi" -> [err |-> "nil", out |-> c.Data]
      [] OTHER -> [err |-> "nil", out |-> << >>]

\* the payload encoder of the case taken
ContentsEncode(c) ==
    CASE c.kind = "AudioFormat" -> AudioFormatEncode(c)
      [] c.kind = "ChannelLayout" -> ChannelLayoutEncode(c)
      [] c.kind = "CAFStringsChunk" -> CAFStringsChunkEncode(c)
      [] c.kind = "Data" -> DataEncode(c)
      [] c.kind = "PacketTable" -> PacketTableEncode(c)
      [] OTHER -> [err |-> "nil", out |-> c.Data]

\* what c.Contents holds when Chunk.Encode returns nil: the data and pakt
\* cases end with c.Contents = &cc, a pointer to the pointer it held
ContentsAfterEncode(c) ==
    IF c.Header.ChunkType \in {ChunkTypeAudioData, ChunkTypePacketTable}
    THEN [kind |-> "PointerTo", to |-> c.Contents]
    ELSE c.Contents

\* Chunk.Encode: [err, out, contents], contents being c.Contents afterwards.
\* The type assertion of the case taken panics when c.Contents holds another
\* type.
ChunkEncode(c) ==
    LET hd == ChunkHeaderEncode(c.Header)
    IN  IF c.Contents.kind # WantedKind(c.Header)
        THEN [err |-> "panic", out |-> hd, contents |-> c.Contents]
        ELSE LET r == ContentsEncode(c.Contents)
             IN  [err |-> r.err, out |-> hd \o r.out,
                  contents |-> IF r.err = "nil" THEN ContentsAfterEncode(c)
                               ELSE c.Contents]

\* FileHeader.Encode
FileHeaderEncode(h) ==
    h.FileType \o PutInt(h.FileVersion, 2) \o PutInt(h.FileFlags, 2)

RECURSIVE EncodeChunks(_, _)
\* the loop of File.Encode: c is a copy of cf.Chunks[i], so what Chunk.Encode
\* assigns to c.Contents is dropped
EncodeChunks(chunks, i) ==
    IF i > Len(chunks) THEN [err |-> "nil", out |-> << >>]
    ELSE LET r == ChunkEncode(chunks[i])
         IN  IF r.err # "nil" THEN [err |-> r.err, out |-> r.out]
             ELSE LET rest == EncodeChunks(chunks, i + 1)
                  IN  [err |-> rest.err, out |-> r.out \o rest.out]

\* File.Encode
FileEncode(f) ==
    LET r == EncodeChunks(f.Chunks, 1)
    IN  [err |-> r.err, out |-> FileHeaderEncode(f.FileHeader) \o r.out]

-----------------------------------------------------------------------------
(* The streams of the model: a file header, chunks taken from templates,   *)
(* the whole cut to a prefix                                               *)

HeadBytes(h) ==
    CASE h = "caff" -> <<99, 97, 102, 102, 0, 1, 0, 0>>
      [] h = "cafe" -> <<99, 97, 102, 101, 0, 1, 0, 0>>
      [] h = "CAFF" -> <<67, 65, 70, 70, 0, 1, 0, 0>>

Heads == {"caff", "cafe", "CAFF"}

Size(n) == <<0, 0, 0, 0, 0, 0, 0, n>>

SizeMinusOne == <<255, 255, 255, 255, 255, 255, 255, 255>>

TagZzzz == <<122, 122, 122, 122>>

\* chunks laid out as the format says, the declared size the payload's length
WellFormedChunks ==
    {"desc", "chan", "info", "data", "dataEnd", "pakt", "midi", "zzzz", "zzzz0"}

\* chunks with a corrupt size or count
CorruptChunks ==
    {"midiNeg", "zzzzNeg", "paktPad", "dataShort", "infoCount", "paktCount",
     "chanCount"}

Templates == WellFormedChunks \cup CorruptChunks

ChunkBytes(t) ==
    CASE t = "desc" ->
           ChunkTypeAudioDescription \o Size(32)
           \o <<64, 229, 136, 128, 0, 0, 0, 0>> \o <<108, 112, 99, 109>>
           \o <<0, 0, 0, 12>> \o <<0, 0, 0, 4>> \o <<0, 0, 0, 1>>
           \o <<0, 0, 0, 2>> \o <<0, 0, 0, 16>>
      [] t = "chan" ->
           ChunkTypeChannelLayout \o Size(32)
           \o <<0, 101, 0, 2>> \o <<0, 0, 0, 0>> \o <<0, 0, 0, 1>>
           \o <<0, 0, 0, 1>> \o <<0, 0, 0, 0>>
           \o <<63, 128, 0, 0>> \o <<0, 0, 0, 0>> \o <<191, 128, 0, 0>>
      [] t = "info" ->
           ChunkTypeInformation \o Size(9)
           \o <<0, 0, 0, 1>> \o <<107, 0>> \o <<118, 49, 0>>
      [] t = "data" ->
           ChunkTypeAudioData \o Size(6) \o <<0, 0, 0, 1>> \o <<7, 0>>
      [] t = "dataEnd" ->
           ChunkTypeAudioData \o SizeMinusOne \o <<0, 0, 0, 0>> \o <<1, 2, 3>>
      [] t = "pakt" ->
           ChunkTypePacketTable \o Size(27)
           \o Size(2) \o <<0, 0, 0, 0, 0, 0, 4, 0>>
           \o <<0, 0, 8, 64>> \o <<255, 255, 255, 251>>
           \o <<5>> \o <<130, 44>>
      [] t = "midi" -> ChunkTypeMidi \o Size(2) \o <<77, 84>>
      [] t = "zzzz" -> TagZzzz \o Size(3) \o <<1, 0, 255>>
      [] t = "zzzz0" -> TagZzzz \o Size(0)
      [] t = "midiNeg" -> ChunkTypeMidi \o SizeMinusOne \o <<77, 84>>
      [] t = "zzzzNeg" -> TagZzzz \o SizeMinusOne \o <<1>>
      [] t = "paktPad" ->
           ChunkTypePacketTable \o Size(26)
           \o Size(1) \o Size(0) \o <<0, 0, 0, 0>> \o <<0, 0, 0, 0>>
           \o <<128, 5>>
      [] t = "dataShort" -> ChunkTypeAudioData \o Size(2) \o <<0, 0, 0, 1>>
      [] t = "infoCount" ->
           ChunkTypeInformation \o Size(9)
           \o <<127, 255, 255, 255>> \o <<107, 0>> \o <<118, 49, 0>>
      [] t = "paktCount" ->
           ChunkTypePacketTable \o Size(25)
           \o <<0, 0, 0, 0, 127, 255, 255, 255>> \o Size(0)
           \o <<0, 0, 0, 0>> \o <<0, 0, 0, 0>> \o <<5>>
      [] t = "chanCount" ->
           ChunkTypeChannelLayout \o Size(12)
           \o <<0, 101, 0, 2>> \o <<0, 0, 0, 0>> \o <<127, 255, 255, 255>>

\* the bytes a template needs to be whole: a data chunk of size -1 is whole
\* once its edit count is there
Need(t) == IF t = "dataEnd" THEN 16 ELSE Len(ChunkBytes(t))

RECURSIVE Concat(_, _)
\* the bytes of the first k templates of body
Concat(body, k) ==
    IF k = 0 THEN << >> ELSE Concat(body, k - 1) \o ChunkBytes(body[k])

\* g describes a stream of the model: a cut head alone, the good head with up
\* to MaxChunks chunks, or a bad head with one chunk; the last chunk is cut
IsGen(g) ==
    \/ \E h \in Heads, n \in 0..8 : g = [head |-> h, body |-> << >>, cut |-> n]
    \/ \E k \in 1..MaxChunks : \E b \in [1..k -> Templates] :
           \E n \in 1..Len(ChunkBytes(b[k])) :
              g = [head |-> "caff", body |-> b, cut |-> n]
    \/ \E h \in Heads \ {"caff"}, t \in Templates :
           \E n \in 1..Len(ChunkBytes(t)) :
              g = [head |-> h, body |-> <<t>>, cut |-> n]

StreamOf(g) ==
    IF g.body = << >> THEN SubSeq(HeadBytes(g.head), 1, g.cut)
    ELSE HeadBytes(g.head) \o Concat(g.body, Len(g.body) - 1)
         \o SubSeq(ChunkBytes(g.body[Len(g.body)]), 1, g.cut)

\* the uint64 values handed to the varint codec: every limb 0, 1 or 127
VarintValues ==
    {x \in [1..10 -> {0, 1, 127}] : x[10] < 2}

\* what follows the varint in the reader
Trailers == {<< >>, <<0>>, <<129, 5>>}

-----------------------------------------------------------------------------
(* The state machine *)

EmptyFile ==
    [FileHeader |-> [FileType |-> <<0, 0, 0, 0>>, FileVersion |-> 0,
                     FileFlags |-> 0],
     Chunks |-> << >>]

NoGen == [head |-> "caff", body |-> << >>, cut |-> 0]

NoVarint == [r |-> Fail("nil", 0), tail |-> << >>]

\* f := &File{} and a reader on the stream
Init ==
    /\ IsGen(gen)
    /\ input = StreamOf(gen)
    /\ pos = 0
    /\ pc = "start"
    /\ cf = EmptyFile
    /\ err = "nil"
    /\ offs = << >>
    /\ last = 0
    /\ calls = << >>
    /\ v = Zero64
    /\ vbuf = << >>
    /\ vres = NoVarint
    /\ vpc = "idle"

\* File.Decode up to its loop: the file header
FileDecodeStart ==
    /\ pc = "start"
    /\ LET r == FileHeaderDecode(input, pos)
       IN  IF r.err # "nil"
           THEN /\ err' = r.err
                /\ pc' = "decoded"
                /\ UNCHANGED <<cf, pos>>
           ELSE /\ cf' = [cf EXCEPT !.FileHeader = r.val]
                /\ pos' = r.pos
                /\ pc' = "chunks"
                /\ err' = err
    /\ UNCHANGED <<input, gen, offs, last, calls, varintVars>>

\* one turn of the loop of File.Decode: io.EOF from Chunk.decode ends the
\* loop and File.Decode returns nil; any other error is returned; a panic
\* ends the program
FileDecodeChunk ==
    /\ pc = "chunks"
    /\ last' = pos
    /\ LET r == ChunkDecode(input, pos)
       IN  IF r.err = "EOF"
           THEN /\ err' = "nil"
                /\ pc' = "decoded"
                /\ UNCHANGED <<cf, pos, offs>>
           ELSE IF r.err # "nil"
           THEN /\ err' = r.err
                /\ pc' = "decoded"
                /\ UNCHANGED <<cf, pos, offs>>
           ELSE /\ cf' = [cf EXCEPT !.Chunks = Append(@, r.val)]
                /\ offs' = Append(offs, pos)
                /\ pos' = r.pos
                /\ UNCHANGED <<pc, err>>
    /\ UNCHANGED <<input, gen, calls, varintVars>>

\* an Encode call is made on a File that File.Decode returned nil for, in a
\* program no earlier call has ended with a panic
CanCall ==
    /\ pc = "decoded"
    /\ err = "nil"
    /\ Len(calls) < MaxCalls
    /\ \A k \in 1..Len(calls) : calls[k].err # "panic"

\* cf.Encode(w) on a fresh buffer w
FileEncodeCall ==
    /\ CanCall
    /\ LET r == FileEncode(cf)
       IN  calls' = Append(calls, [op |-> "File.Encode", i |-> 0,
                                   err |-> r.err, out |-> r.out])
    /\ UNCHANGED <<input, gen, pos, pc, cf, err, offs, last, varintVars>>

\* cf.Chunks[i].Encode(w) on a fresh buffer w
ChunkEncodeCall(i) ==
    /\ CanCall
    /\ i \in 1..Len(cf.Chunks)
    /\ LET r == ChunkEncode(cf.Chunks[i])
       IN  /\ cf' = [cf EXCEPT !.Chunks[i].Contents = r.contents]
           /\ calls' = Append(calls, [op |-> "Chunk.Encode", i |-> i,
                                      err |-> r.err, out |-> r.out])
    /\ UNCHANGED <<input, gen, pos, pc, err, offs, last, varintVars>>

Next ==
    \/ FileDecodeStart
    \/ FileDecodeChunk
    \/ FileEncodeCall
    \/ \E i \in 1..MaxChunks : ChunkEncodeCall(i)

Spec == Init /\ [][Next]_vars

-----------------------------------------------------------------------------
(* The varint codec on its own *)

VarintInit ==
    /\ v \in VarintValues
    /\ vbuf = << >>
    /\ vres = NoVarint
    /\ vpc = "new"
    /\ gen = NoGen
    /\ input = << >>
    /\ pos = 0
    /\ pc = "idle"
    /\ cf = EmptyFile
    /\ err = "nil"
    /\ offs = << >>
    /\ last = 0
    /\ calls = << >>

\* encodeInt(w, v) on an empty buffer
VarintEncode ==
    /\ vpc = "new"
    /\ vbuf' = encodeInt(v)
    /\ vpc' = "encoded"
    /\ UNCHANGED <<v, vres, fileVars>>

\* decodeInt on a reader holding the bytes written, then a trailer
VarintDecode ==
    /\ vpc = "encoded"
    /\ \E t \in Trailers : vres' = [r |-> decodeInt(vbuf \o t, 0), tail |-> t]
    /\ vpc' = "decoded"
    /\ UNCHANGED <<v, vbuf, fileVars>>

VarintNext == VarintEncode \/ VarintDecode

SpecVarint == VarintInit /\ [][VarintNext]_vars

-----------------------------------------------------------------------------
(* What the claims speak of *)

KnownTags ==
    {ChunkTypeAudioDescription, ChunkTypeChannelLayout, ChunkTypeInformation,
     ChunkTypeAudioData, ChunkTypePacketTable, ChunkTypeMidi}

\* the index of the first template of body that is a data chunk of size -1,
\* or 0
FirstSentinel(body) ==
    IF \E j \in 1..Len(body) : body[j] = "dataEnd"
    THEN CHOOSE j \in 1..Len(body) :
            /\ body[j] = "dataEnd"
            /\ \A i \in 1..(j - 1) : body[i] # "dataEnd"
    ELSE 0

\* a valid CAF byte sequence: the "caff" header, then well-formed chunks, each
\* whole; what follows a data chunk of size -1 is its payload, whatever it is
WellFormedStream(g) ==
    /\ g.head = "caff"
    /\ IF g.body = << >> THEN g.cut = 8
       ELSE LET j == FirstSentinel(g.body)
                n == Len(g.body)
            IN  IF j # 0 /\ j < n
                THEN \A i \in 1..j : g.body[i] \in WellFormedChunks
                ELSE /\ \A i \in 1..n : g.body[i] \in WellFormedChunks
                     /\ g.cut >= Need(g.body[n])

\* a valid header and whole well-formed chunks, then a well-formed chunk the
\* stream ends partway through
TruncatedStream(g) ==
    /\ g.head = "caff"
    /\ g.body # << >>
    /\ \A i \in 1..Len(g.body) : g.body[i] \in WellFormedChunks
    /\ FirstSentinel(g.body) \in {0, Len(g.body)}
    /\ g.cut < Need(g.body[Len(g.body)])

\* the stream offset right after chunk i of cf.Chunks
EndOf(i) == IF i < Len(offs) THEN offs[i + 1] ELSE pos

Range(f) == {f[i] : i \in DOMAIN f}

-----------------------------------------------------------------------------
(* C1 *)

\* C1: for a valid CAF byte sequence (the "caff" header followed by whole
\* well-formed chunks), File.Decode returns nil, and File.Encode of the File
\* it filled returns nil and writes the same bytes, as many and each equal.
C1_RoundTrip ==
    WellFormedStream(gen) =>
        /\ pc = "decoded" => err = "nil"
        /\ (calls # << >> /\ calls[1].op = "File.Encode") =>
               /\ calls[1].err = "nil"
               /\ Len(calls[1].out) = Len(input)
               /\ calls[1].out = input

C1_Witness ==
    /\ WellFormedStream(gen)
    /\ gen.body = <<"pakt", "info">>
    /\ calls # << >>
    /\ calls[1].op = "File.Encode"
    /\ calls[1].out = input

-----------------------------------------------------------------------------
(* C2 *)

\* C2: when the stream ends partway through a chunk header or a chunk
\* payload after a valid file header, File.Decode returns an error.
C2_TruncationIsError ==
    (TruncatedStream(gen) /\ pc = "decoded") => err # "nil"

-----------------------------------------------------------------------------
(* C3 *)

FirstFourNotCaff == Len(input) >= 4 /\ SubSeq(input, 1, 4) # TagCaff

\* C3, as amended: a stream whose first 4 bytes are not "caff" makes
\* File.Decode fail before any chunk is decoded, with "invalid caff header"
\* when the stream holds the 8 bytes of the file header and with
\* io.ErrUnexpectedEOF when it holds fewer.
C3_MagicRejected ==
    FirstFourNotCaff =>
        /\ cf.Chunks = << >>
        /\ pc \in {"start", "decoded"}
        /\ pc = "decoded" =>
               err = IF Len(input) >= 8 THEN "invalid caff header"
                     ELSE "ErrUnexpectedEOF"

C3_Witness ==
    /\ gen = [head |-> "CAFF", body |-> <<"desc">>, cut |-> 44]
    /\ pc = "decoded"
    /\ err = "invalid caff header"

\* C3 as stated: the malformed-header error however many bytes follow the
\* first four.
C3_Original ==
    (FirstFourNotCaff /\ pc = "decoded") =>
        /\ err = "invalid caff header"
        /\ cf.Chunks = << >>

-----------------------------------------------------------------------------
(* C4 *)

\* C4: a decoded "data" chunk of declared size -1 holds every byte of the
\* stream after its edit count and is the last chunk decoded; one of declared
\* size S >= 4 holds exactly the S - 4 bytes after its edit count, and the
\* reader goes on right after them.
C4_DataSizing ==
    \A i \in 1..Len(cf.Chunks) :
        LET c == cf.Chunks[i]
            S == c.Header.ChunkSize
            d == IF c.Contents.kind = "PointerTo" THEN c.Contents.to
                 ELSE c.Contents
        IN  c.Header.ChunkType = ChunkTypeAudioData =>
                /\ S = -1 =>
                       /\ d.Data = SubSeq(input, offs[i] + 17, Len(input))
                       /\ i = Len(cf.Chunks)
                       /\ pos = Len(input)
                /\ S >= 4 =>
                       /\ Len(d.Data) = S - 4
                       /\ d.Data = SubSeq(input, offs[i] + 17, offs[i] + 12 + S)
                       /\ EndOf(i) = offs[i] + 12 + S

-----------------------------------------------------------------------------
(* C5 *)

\* a whole chunk of an unknown tag and a size N >= 0 lies at offset p
WholeUnknownAt(p) ==
    /\ Len(input) >= p + 12
    /\ SubSeq(input, p + 1, p + 4) \notin KnownTags
    /\ LET N == BigEndianInt(SubSeq(input, p + 5, p + 12))
       IN  N >= 0 /\ Len(input) >= p + 12 + N

\* C5: a chunk of an unknown tag and declared size N, its N bytes in the
\* stream, is decoded without error to an UnknownContents of exactly those N
\* bytes, and Chunk.Encode of it writes the same 12-byte header and the same
\* N bytes.
C5_UnknownPreserved ==
    /\ (pc = "decoded" /\ pos >= 8) => ~WholeUnknownAt(last)
    /\ \A i \in 1..Len(cf.Chunks) :
           LET c == cf.Chunks[i]
               N == c.Header.ChunkSize
           IN  c.Header.ChunkType \notin KnownTags =>
                   /\ c.Contents.kind = "UnknownContents"
                   /\ Len(c.Contents.Data) = N
                   /\ c.Contents.Data = SubSeq(input, offs[i] + 13, offs[i] + 12 + N)
    /\ \A k \in 1..Len(calls) :
           (/\ calls[k].op = "Chunk.Encode"
            /\ cf.Chunks[calls[k].i].Header.ChunkType \notin KnownTags) =>
               LET i == calls[k].i
                   N == cf.Chunks[i].Header.ChunkSize
               IN  /\ calls[k].err = "nil"
                   /\ calls[k].out = SubSeq(input, offs[i] + 1, offs[i] + 12 + N)

C5_Witness ==
    /\ gen.body = <<"desc", "zzzz">>
    /\ Len(calls) = 2
    /\ calls[1].op = "Chunk.Encode"
    /\ calls[1].i = 2
    /\ calls[2] = calls[1]
    /\ Len(calls[1].out) = 15

-----------------------------------------------------------------------------
(* C6 *)

\* C6: for v below 2^56, decodeInt on the bytes encodeInt wrote for v returns
\* v and consumes exactly those bytes, whatever follows them; for v = 0
\* encodeInt writes the single byte 0.
C6_VarintRoundTrip ==
    /\ (vpc = "decoded" /\ v[9] = 0 /\ v[10] = 0) =>
           /\ vres.r.err = "nil"
           /\ vres.r.val = v
           /\ vres.r.pos = Len(vbuf)
    /\ (vpc \in {"encoded", "decoded"} /\ v = Zero64) => vbuf = <<0>>

C6_Witness ==
    /\ vpc = "decoded"
    /\ v = <<1, 0, 127, 0, 0, 0, 0, 127, 0, 0>>
    /\ Len(vbuf) = 8
    /\ vres.tail = <<129, 5>>
    /\ vres.r.val = v

-----------------------------------------------------------------------------
(* C7 *)

\* C7: when the stream is exhausted where a chunk header would begin,
\* File.Decode returns nil and the File holds the chunks decoded so far, in
\* the order of the stream; the file header alone decodes to no chunk and no
\* error.
C7_CleanEnd ==
    /\ (pc = "decoded" /\ pos >= 8 /\ pos = Len(input)) => err = "nil"
    /\ Len(offs) = Len(cf.Chunks)
    /\ \A i \in 1..Len(cf.Chunks) :
           /\ i = 1 => offs[i] = 8
           /\ offs[i] < EndOf(i)
           /\ cf.Chunks[i].Header = ChunkHeaderDecode(input, offs[i]).val
    /\ (pc = "decoded" /\ input = HeadBytes("caff")) =>
           (err = "nil" /\ cf.Chunks = << >>)

C7_Witness ==
    /\ pc = "decoded"
    /\ err = "nil"
    /\ pos = Len(input)
    /\ Len(cf.Chunks) = 2
    /\ cf.Chunks[1].Header.ChunkType = ChunkTypeMidi
    /\ cf.Chunks[2].Header.ChunkType = ChunkTypeAudioDescription

-----------------------------------------------------------------------------
(* C8 *)

\* C8: File.Decode returns nil or an error for every stream; no declared
\* size and no count makes it panic.
C8_NoCrash == err # "panic"

-----------------------------------------------------------------------------
(* C9 *)

RECURSIVE Flatten(_)
\* the keys and values of an information table, one after the other
Flatten(st) ==
    IF st = << >> THEN << >>
    ELSE st[1].Key \o st[1].Value \o Flatten(Tail(st))

\* str is bytes other than zero, then one zero byte
ZeroTerminated(str) ==
    /\ Len(str) >= 1
    /\ str[Len(str)] = 0
    /\ \A k \in 1..(Len(str) - 1) : str[k] # 0

-----------------------------------------------------------------------------
(* C10 *)

\* C10: on a File decoded from a valid stream, an Encode call leaves the File
\* as it was, header and chunks, and a call repeated on the same chunk, or on
\* the File, returns nil and writes the bytes the earlier call wrote.
C10_EncodeLeavesModel ==
    WellFormedStream(gen) =>
        /\ \A i \in 1..Len(cf.Chunks) :
               /\ cf.Chunks[i].Contents.kind # "PointerTo"
               /\ cf.Chunks[i] = ChunkDecode(input, offs[i]).val
        /\ \A j, k \in 1..Len(calls) :
               (j < k /\ calls[j].op = calls[k].op /\ calls[j].i = calls[k].i) =>
                   (calls[k].err = "nil" /\ calls[k].out = calls[j].out)

====
